---- MODULE Spec2Model ----
(***************************************************************************)
(* Model of src/src/App.tsx: the choropleth classifier (getFillColor over  *)
(* the d3 threshold scale COLOR_SCALE), the tooltip builder (getTooltip),  *)
(* and the App component: its two pieces of React state (data, viewState), *)
(* the one-shot fetch effect, the onViewStateChange callback and the       *)
(* loading guard.                                                          *)
(*                                                                         *)
(* Conventions.                                                            *)
(*  - JavaScript null / undefined / NaN are the tagged records Null,       *)
(*    Undefined, NaN; a JavaScript number n is Num(n), a string s Str(s),  *)
(*    an array Arr(<<...>>) (a colour is the array of its three channels). *)
(*  - Plain objects are functions from key strings to values, so that      *)
(*    ('k' in o) is  "k" \in DOMAIN o  and a spread is a function merge.   *)
(*  - Latitudes and longitudes are in units of 1e-4 degree (40.7128 is     *)
(*    407128), the resolution of the literals in INITIAL_VIEW_STATE.       *)
(***************************************************************************)
EXTENDS Integers, Sequences, FiniteSets

VARIABLES
    data,          \* React state `data` (App.tsx:75)
    viewState,     \* React state `viewState`: the latest value handed to setViewState (App.tsx:76)
    ui,            \* what the last render returned: "none" (not rendered yet), "loading", "maps"
    cbMinimap,     \* viewState.minimap as closed over by the onViewStateChange of the last render
    needsRender,   \* a setState has scheduled a re-render that has not run yet
    mounted,       \* the first commit has happened (effects with [] deps have run)
    renders,       \* number of renders so far
    pc,            \* position of the promise chain fetch().then().then() (App.tsx:80-82)
    geojson,       \* the value res.json() resolved with
    fetchCount,    \* number of fetch() calls issued
    lastEvent,     \* history: the newViewState of the last onViewStateChange event
    prevMinimap,   \* history: viewState.minimap just before the last event
    lastWasStale,  \* history: the last event went through a callback whose captured minimap was stale
    d,             \* classifier input
    fill,          \* classifier output
    object,        \* picked object handed to getTooltip
    locale,        \* the runtime's default locale, used by Number.prototype.toLocaleString()
    tooltip        \* getTooltip output

appVars == <<data, viewState, ui, cbMinimap, needsRender, mounted, renders, pc,
             geojson, fetchCount, lastEvent, prevMinimap, lastWasStale>>
colorVars == <<d, fill>>
tooltipVars == <<object, locale, tooltip>>
vars == <<appVars, colorVars, tooltipVars>>

----------------------------------------------------------------------------
(* JavaScript values *)

Null == [tag |-> "null"]
Undefined == [tag |-> "undefined"]
NaN == [tag |-> "NaN"]
Num(n) == [tag |-> "number", value |-> n]
Str(s) == [tag |-> "string", value |-> s]
\* a JavaScript array with the elements items
Arr(items) == [tag |-> "array", items |-> items]

\* Not a JavaScript value: marks an output that has not been computed yet.
NotComputed == [tag |-> "not computed"]

\* x == null  (loose equality: true of null and of undefined)
IsNullish(x) == x = Null \/ x = Undefined

\* !x for the values `data`, `object` and `props` can hold here: null and
\* undefined are falsy; every object and every array (the empty one too) is truthy.
Falsy(x) == x = Null \/ x = Undefined

----------------------------------------------------------------------------
(* Classifier: COLOR_SCALE and getFillColor (App.tsx:11-23) *)

\* Bounds of the classifier inputs: the numbers -GrowthBelow .. MaxGrowth.
GrowthBelow == 5
MaxGrowth == 805

\* .domain([100, 200, 300, 500, 800])
ScaleDomain == <<100, 200, 300, 500, 800>>

\* .range([...]) : the six bucket colours
ScaleRange ==
    << Arr(<<254, 235, 226>>), Arr(<<252, 197, 192>>), Arr(<<250, 159, 181>>),
       Arr(<<247, 104, 161>>), Arr(<<197, 27, 138>>), Arr(<<122, 1, 119>>) >>

\* the sentinel returned for an absent value
White == Arr(<<255, 255, 255>>)

\* Mutant: d3's bisectLeft (a[mid] < x) in place of bisectRight.
RECURSIVE bisectLeft(_, _, _, _)
bisectLeft(a, x, lo, hi) ==
    IF lo < hi
    THEN LET mid == (lo + hi) \div 2
         IN  IF a[mid + 1] < x
             THEN bisectLeft(a, x, mid + 1, hi)
             ELSE bisectLeft(a, x, lo, mid)
    ELSE lo

\* d3-array bisectRight(a, x, lo, hi), the lookup scaleThreshold uses:
\*   while (lo < hi) { mid = (lo + hi) >>> 1;
\*                     if (a[mid] <= x) lo = mid + 1; else hi = mid; }  return lo;
\* (indices are 0-based as in the library; a[mid + 1] is the 1-based read).
RECURSIVE bisectRight(_, _, _, _)
bisectRight(a, x, lo, hi) ==
    IF lo < hi
    THEN LET mid == (lo + hi) \div 2
         IN  IF a[mid + 1] <= x
             THEN bisectRight(a, x, mid + 1, hi)
             ELSE bisectRight(a, x, lo, mid)
    ELSE lo

\* The lookup of the threshold scale.
bisect(a, x, lo, hi) == bisectRight(a, x, lo, hi)

Min(a, b) == IF a < b THEN a ELSE b

\* COLOR_SCALE(x): scaleThreshold's
\*   x != null && x <= x ? range[bisect(domain, x, 0, n)] : unknown
\* with n = min(domain.length, range.length - 1) and unknown = undefined.
\* NaN fails x <= x; null and undefined fail x != null.
COLOR_SCALE(x) ==
    IF x.tag = "number"
    THEN ScaleRange[bisect(ScaleDomain, x.value, 0,
                           Min(Len(ScaleDomain), Len(ScaleRange) - 1)) + 1]
    ELSE Undefined

\* Mutant: d === null, which lets undefined through to the scale.
getFillColorStrict(x) == IF x = Null THEN White ELSE COLOR_SCALE(x)

\* getFillColor = d => d == null ? [255, 255, 255] : COLOR_SCALE(d)
getFillColor(x) == IF IsNullish(x) THEN White ELSE COLOR_SCALE(x)

GrowthInputs ==
    {Num(n) : n \in (0 - GrowthBelow) .. MaxGrowth} \cup {Null, Undefined, NaN}

ColorInit == d \in GrowthInputs /\ fill = NotComputed
ColorIdle == d = Null /\ fill = NotComputed

\* A layer accessor evaluates getFillColor(f.properties["TAUG2"]) (App.tsx:123, 147).
ApplyFillColor ==
    /\ fill = NotComputed
    /\ fill' = getFillColor(d)
    /\ UNCHANGED <<d, appVars, tooltipVars>>

----------------------------------------------------------------------------
(* Tooltip: getTooltip (App.tsx:59-72) *)

Digits == <<"0", "1", "2", "3", "4", "5", "6", "7", "8", "9">>

\* decimal digits of a natural number
RECURSIVE NatToString(_)
NatToString(n) ==
    IF n < 10 THEN Digits[n + 1]
    ELSE NatToString(n \div 10) \o Digits[(n % 10) + 1]

\* three digits, zero padded: one group after a separator
Pad3(n) ==
    Digits[(n \div 100) + 1] \o Digits[((n \div 10) % 10) + 1] \o Digits[(n % 10) + 1]

\* groups of three digits from the right, joined by sep
RECURSIVE Grouped(_, _)
Grouped(n, sep) ==
    IF n < 1000 THEN NatToString(n)
    ELSE Grouped(n \div 1000, sep) \o sep \o Pad3(n % 1000)

\* The default locales a runtime can run the page under. toLocaleString() is
\* called without a locale argument, so the host's default locale decides.
Locales == {"en-US", "de-DE", "fr-FR"}

\* the locale's grouping separator (fr-FR: U+202F NARROW NO-BREAK SPACE,
\* written here as a space)
GroupSeparator(loc) ==
    CASE loc = "en-US" -> ","
      [] loc = "de-DE" -> "."
      [] loc = "fr-FR" -> " "

\* Number.prototype.toLocaleString() of an integer under default locale loc
toLocaleString(n, loc) ==
    IF n < 0 THEN "-" \o Grouped(0 - n, GroupSeparator(loc))
    ELSE Grouped(n, GroupSeparator(loc))

\* props[key] : undefined when the key is missing
Get(o, key) == IF key \in DOMAIN o THEN o[key] ELSE Undefined

\* `${props[key] ?? ''}` for a string-valued property
TextOr(o, key) == IF IsNullish(Get(o, key)) THEN "" ELSE Get(o, key).value

\* Mutant: the ?? 'N/A' fallback left out, so the template prints undefined.
PriceTextNoFallback(o, loc) ==
    IF IsNullish(Get(o, "price_median")) THEN "undefined"
    ELSE toLocaleString(Get(o, "price_median").value, loc)

\* `${props["price_median"]?.toLocaleString() ?? 'N/A'}`
PriceText(o, loc) ==
    IF IsNullish(Get(o, "price_median")) THEN "N/A"
    ELSE toLocaleString(Get(o, "price_median").value, loc)

\* const props = 'properties' in object ? object.properties : object
PropsOf(o) == IF "properties" \in DOMAIN o THEN o["properties"] ELSE o

\* The html template, one entry per <div> line of the template literal
\* (the white space between the lines is left out).
TooltipHtml(props, loc) ==
    << "<div style=\"color: white; font-weight: bold; font-size: 18px\">"
           \o TextOr(props, "County_min") \o "</div>",
       "<div style=\"color: white; font-weight: normal;\">"
           \o TextOr(props, "Name_min") \o "</div>",
       "<div style=\"color: lightgray;\"><b>Median sales values:</b></div>",
       "<div style=\"color: lightgray;\">$" \o PriceText(props, loc) \o " USD</div>" >>

\* getTooltip({object})
getTooltip(o, loc) ==
    IF Falsy(o) THEN Null
    ELSE IF Falsy(PropsOf(o)) THEN Null
    ELSE [html |-> TooltipHtml(PropsOf(o), loc)]

\* Inputs: property bags with each of the three keys present or missing.
Prices == {0, 999, 1000, 500000, 1234567}

PriceValues == {Null} \cup {Num(p) : p \in Prices}

Bag(keys, county, name, price) ==
    [k \in keys |-> CASE k = "County_min" -> county
                      [] k = "Name_min" -> name
                      [] k = "price_median" -> price]

PropertyBags ==
    { Bag(keys, Str("Kings"), Str("Brooklyn"), price) :
        keys \in SUBSET {"County_min", "Name_min", "price_median"},
        price \in PriceValues }

\* GeoJSON features: the properties member is an object or null
Features ==
    { [type |-> Str("Feature"), properties |-> props] :
        props \in PropertyBags \cup {Null} }

\* What a pick can deliver: nothing, a feature, or an object that is not a
\* feature and carries the fields itself (the else branch of line 61).
PickedObjects == {Null} \cup Features \cup PropertyBags

TooltipInit ==
    /\ object \in PickedObjects
    /\ locale \in Locales
    /\ tooltip = NotComputed

TooltipIdle == object = Null /\ locale = "en-US" /\ tooltip = NotComputed

\* deck.gl calls getTooltip with the picking info of the hovered pixel.
ApplyGetTooltip ==
    /\ tooltip = NotComputed
    /\ tooltip' = getTooltip(object, locale)
    /\ UNCHANGED <<object, locale, appVars, colorVars>>

----------------------------------------------------------------------------
(* App component: state, fetch effect, onViewStateChange, loading guard
   (App.tsx:25-39, 74-102) *)

\* Bounds of the component model.
MaxRenders == 4
MaxFeatures == 2

INITIAL_VIEW_STATE ==
    [ main    |-> [latitude |-> 407128, longitude |-> -740060, zoom |-> 10,
                   maxZoom |-> 16, pitch |-> 60, bearing |-> -90],
      minimap |-> [latitude |-> 407128, longitude |-> -740060, zoom |-> 4] ]

\* The view states the main map's controller can report after an interaction.
NewViewStates ==
    [ latitude : {407128, 410000}, longitude : {-740060, -739000},
      zoom : {4, 10}, maxZoom : {16}, pitch : {0, 60}, bearing : {-90, 0} ]

\* { ...base, ...over } : object spread, later keys win
Spread(base, over) ==
    [k \in DOMAIN base \cup DOMAIN over |->
        IF k \in DOMAIN over THEN over[k] ELSE base[k]]

\* Mutant: the minimap is built from the new main state instead of the old minimap.
onViewStateChangeSpreadMain(minimap, newViewState) ==
    [ main    |-> newViewState,
      minimap |-> Spread(newViewState, [longitude |-> newViewState.longitude,
                                        latitude  |-> newViewState.latitude]) ]

\* Mutant: the minimap is carried over as captured, its centre not updated.
onViewStateChangeNoSync(minimap, newViewState) ==
    [ main |-> newViewState, minimap |-> minimap ]

\* Mutant: the latitude override is missing, so the captured latitude survives.
onViewStateChangeNoLatitude(minimap, newViewState) ==
    [ main    |-> newViewState,
      minimap |-> Spread(minimap, [longitude |-> newViewState.longitude]) ]

\* Mutant: the spread of the captured minimap is missing.
onViewStateChangeNoSpread(minimap, newViewState) ==
    [ main    |-> newViewState,
      minimap |-> [longitude |-> newViewState.longitude,
                   latitude  |-> newViewState.latitude] ]

\* The value onViewStateChange hands to setViewState; `minimap` is the
\* viewState.minimap the callback closed over.
onViewStateChange(minimap, newViewState) ==
    [ main    |-> newViewState,
      minimap |-> Spread(minimap, [longitude |-> newViewState.longitude,
                                   latitude  |-> newViewState.latitude]) ]

\* Mutant: an empty feature array is treated as not loaded (!data || !data.length).
LoadingGuardEmpty(x) == Falsy(x) \/ x = Arr(<<>>)

\* if (!data) return <div>Loading...</div>
LoadingGuard(x) == Falsy(x)

\* Mutant: useEffect without a dependency array runs after every render.
EffectShouldRunEveryRender == TRUE

\* useEffect(..., []) : the effect runs after the first commit only
EffectShouldRun == ~mounted

\* Mutant: a .catch handler that stores an empty dataset.
OnRejectedCatch ==
    /\ pc' = "rejected"
    /\ data' = Arr(<<>>)
    /\ needsRender' = TRUE

\* The chain has no rejection handler: the rejection goes unhandled and no
\* state is set.
OnRejected ==
    /\ pc' = "rejected"
    /\ UNCHANGED <<data, needsRender>>

\* The features a document can list.
DocFeatures ==
    { [type |-> Str("Feature"),
       properties |-> Bag({"County_min", "Name_min", "price_median"},
                          Str("Kings"), Str("Brooklyn"), Num(500000))],
      [type |-> Str("Feature"), properties |-> Null] }

FeatureArrays == { Arr(fs) : fs \in UNION { [1..n -> DocFeatures] : n \in 0..MaxFeatures } }

\* What res.json() can resolve with: the JSON value null, an object without a
\* features member, or a FeatureCollection.
Documents ==
    {Null} \cup { [type |-> Str("FeatureCollection")] }
           \cup { [type |-> Str("FeatureCollection"), features |-> fs] :
                    fs \in FeatureArrays }

AppInit ==
    /\ data = Null
    /\ viewState = INITIAL_VIEW_STATE
    /\ ui = "none"
    /\ cbMinimap = INITIAL_VIEW_STATE.minimap
    /\ needsRender = TRUE
    /\ mounted = FALSE
    /\ renders = 0
    /\ pc = "idle"
    /\ geojson = Undefined
    /\ fetchCount = 0
    /\ lastEvent = Null
    /\ prevMinimap = INITIAL_VIEW_STATE.minimap
    /\ lastWasStale = FALSE

history == <<lastEvent, prevMinimap, lastWasStale>>

\* One run of the function component and its commit: the hooks (lines 75-100),
\* the loading guard (line 102), and the effects the commit runs.
Render ==
    /\ renders < MaxRenders
    /\ renders' = renders + 1
    /\ cbMinimap' = viewState.minimap
    /\ ui' = IF LoadingGuard(data) THEN "loading" ELSE "maps"
    /\ needsRender' = FALSE
    /\ mounted' = TRUE
    /\ IF EffectShouldRun
       THEN fetchCount' = fetchCount + 1 /\ pc' = "fetching"
       ELSE UNCHANGED <<fetchCount, pc>>
    /\ UNCHANGED <<data, viewState, geojson, history, colorVars, tooltipVars>>

\* fetch('./data/USA.geojson') resolves with a response
FetchResolve ==
    /\ pc = "fetching"
    /\ pc' = "parsing"
    /\ UNCHANGED <<data, viewState, ui, cbMinimap, needsRender, mounted, renders,
                   geojson, fetchCount, history, colorVars, tooltipVars>>

\* fetch rejects (network error)
FetchReject ==
    /\ pc = "fetching"
    /\ OnRejected
    /\ UNCHANGED <<viewState, ui, cbMinimap, mounted, renders,
                   geojson, fetchCount, history, colorVars, tooltipVars>>

\* res.json() resolves with the parsed document
JsonResolve ==
    /\ pc = "parsing"
    /\ \E doc \in Documents : geojson' = doc
    /\ pc' = "parsed"
    /\ UNCHANGED <<data, viewState, ui, cbMinimap, needsRender, mounted, renders,
                   fetchCount, history, colorVars, tooltipVars>>

\* res.json() rejects (the body is not JSON)
JsonReject ==
    /\ pc = "parsing"
    /\ OnRejected
    /\ UNCHANGED <<viewState, ui, cbMinimap, mounted, renders,
                   geojson, fetchCount, history, colorVars, tooltipVars>>

\* geojson => setData(geojson.features), on a document that is an object
SetData ==
    /\ pc = "parsed"
    /\ geojson # Null
    /\ data' = Get(geojson, "features")
    /\ needsRender' = TRUE
    /\ pc' = "settled"
    /\ UNCHANGED <<viewState, ui, cbMinimap, mounted, renders,
                   geojson, fetchCount, history, colorVars, tooltipVars>>

\* geojson => setData(geojson.features), on the JSON value null: reading
\* .features throws a TypeError and the chain rejects
SetDataThrows ==
    /\ pc = "parsed"
    /\ geojson = Null
    /\ OnRejected
    /\ UNCHANGED <<viewState, ui, cbMinimap, mounted, renders,
                   geojson, fetchCount, history, colorVars, tooltipVars>>

\* The main DeckGL reports an interaction. It exists only when the last render
\* got past the loading guard, and it calls the onViewStateChange of that render.
ViewStateChange ==
    /\ ui = "maps"
    /\ \E newViewState \in NewViewStates :
          /\ viewState' = onViewStateChange(cbMinimap, newViewState)
          /\ lastEvent' = newViewState
    /\ prevMinimap' = viewState.minimap
    /\ lastWasStale' = (needsRender /\ cbMinimap # viewState.minimap)
    /\ needsRender' = TRUE
    /\ UNCHANGED <<data, ui, cbMinimap, mounted, renders, pc,
                   geojson, fetchCount, colorVars, tooltipVars>>

Init == AppInit /\ ColorIdle /\ TooltipIdle

InitColor == AppInit /\ ColorInit /\ TooltipIdle

InitTooltip == AppInit /\ ColorIdle /\ TooltipInit

Next ==
    \/ Render
    \/ FetchResolve
    \/ FetchReject
    \/ JsonResolve
    \/ JsonReject
    \/ SetData
    \/ SetDataThrows
    \/ ViewStateChange

Spec == Init /\ [][Next]_vars

\* The classifier applied to every input
NextColor == ApplyFillColor

SpecColor == InitColor /\ [][NextColor]_vars

\* The tooltip builder applied to every pick under every locale
NextTooltip == ApplyGetTooltip

SpecTooltip == InitTooltip /\ [][NextTooltip]_vars

----------------------------------------------------------------------------
(* Properties of the classifier, checked under SpecColor *)

\* C1: for every number v, getFillColor(v) is the colour of the bucket the
\* ascending boundaries 100, 200, 300, 500, 800 select with half-open
\* intervals: v < 100 bucket 0, [100, 200) bucket 1, [200, 300) bucket 2,
\* [300, 500) bucket 3, [500, 800) bucket 4, v >= 800 bucket 5; so 100 is in
\* bucket 1 and 800 in bucket 5.
C1_FillColorBuckets ==
    (fill # NotComputed /\ d.tag = "number") =>
        LET v == d.value
        IN  /\ (v < 100) => fill = Arr(<<254, 235, 226>>)
            /\ (100 <= v /\ v < 200) => fill = Arr(<<252, 197, 192>>)
            /\ (200 <= v /\ v < 300) => fill = Arr(<<250, 159, 181>>)
            /\ (300 <= v /\ v < 500) => fill = Arr(<<247, 104, 161>>)
            /\ (500 <= v /\ v < 800) => fill = Arr(<<197, 27, 138>>)
            /\ (v >= 800) => fill = Arr(<<122, 1, 119>>)

\* C1 witness: the boundary value 100 has been classified into bucket 1.
C1_Witness == d = Num(100) /\ fill = Arr(<<252, 197, 192>>)

\* C2: null and undefined give the sentinel white, which is none of the six
\* bucket colours, and no number (NaN included) is given the sentinel.
C2_SentinelForAbsent ==
    /\ \A i \in 1..Len(ScaleRange) : ScaleRange[i] # Arr(<<255, 255, 255>>)
    /\ fill # NotComputed =>
        /\ (d = Null \/ d = Undefined) =>
              /\ fill = Arr(<<255, 255, 255>>)
              /\ \A i \in 1..Len(ScaleRange) : fill # ScaleRange[i]
        /\ (d.tag = "number" \/ d.tag = "NaN") => fill # Arr(<<255, 255, 255>>)

\* C2 witness: undefined has been classified, and got the sentinel.
C2_Witness == d = Undefined /\ fill = Arr(<<255, 255, 255>>)

----------------------------------------------------------------------------
(* Properties of the component, checked under Spec *)

\* C3: in every reachable state the minimap's latitude and longitude equal the
\* main camera's, and after an onViewStateChange event the stored main state
\* is the event's state and the minimap centre is the event's centre.
C3_MinimapFollowsMain ==
    /\ viewState.minimap.latitude = viewState.main.latitude
    /\ viewState.minimap.longitude = viewState.main.longitude
    /\ lastEvent # Null =>
          /\ viewState.main = lastEvent
          /\ viewState.minimap.latitude = lastEvent.latitude
          /\ viewState.minimap.longitude = lastEvent.longitude

\* C3 witness: an event has moved the main camera away from the initial centre.
C3_Witness ==
    /\ lastEvent # Null
    /\ viewState.main.latitude = 410000
    /\ viewState.main.longitude = -739000
    /\ viewState.minimap.latitude = 410000

\* C4: whatever zoom, pitch or bearing the events carry, the minimap zoom is
\* still 4 and the minimap state has the fields latitude, longitude, zoom only.
C4_MinimapZoomConstant ==
    /\ DOMAIN viewState.minimap = {"latitude", "longitude", "zoom"}
    /\ viewState.minimap.zoom = 4

\* C4 witness: an event with another zoom, pitch and bearing has been applied.
C4_Witness ==
    /\ lastEvent # Null
    /\ lastEvent.zoom = 10
    /\ lastEvent.pitch = 0
    /\ lastEvent.bearing = 0
    /\ viewState.main = lastEvent

\* C5: an event whose latitude and longitude equal the minimap's leaves the
\* minimap state unchanged field by field, and delivering the last event once
\* more (through the callback of the last render or through a refreshed one)
\* gives the combined state already stored.
C5_ViewSyncIdempotent ==
    lastEvent # Null =>
        /\ (/\ lastEvent.latitude = prevMinimap.latitude
            /\ lastEvent.longitude = prevMinimap.longitude)
              => viewState.minimap = prevMinimap
        /\ \A cb \in {cbMinimap, viewState.minimap} :
              onViewStateChange(cb, lastEvent) = viewState

\* C5 witness: an event arrived whose centre was already the minimap's centre,
\* after the cameras had left their initial position.
C5_Witness ==
    /\ lastEvent # Null
    /\ lastEvent.latitude = prevMinimap.latitude
    /\ lastEvent.longitude = prevMinimap.longitude
    /\ prevMinimap.latitude = 410000

\* C6: once the fetch, the parse or the handler has failed, the dataset is
\* null, exactly one fetch has been issued, the UI shows the loading
\* indicator, and none of this ever changes again.
C6_FailureStaysLoading ==
    /\ [](pc = "rejected" => (data = Null /\ ui = "loading" /\ fetchCount = 1))
    /\ [][pc = "rejected" =>
            (pc' = "rejected" /\ data' = data /\ ui' = ui /\ fetchCount' = fetchCount)]_vars

\* C6 witness: the load has failed and the component has re-rendered since.
C6_Witness ==
    pc = "rejected" /\ renders >= 3 /\ ui = "loading" /\ data = Null

C8_LoadedOnce ==
    /\ [](fetchCount <= 1 /\ (mounted <=> fetchCount = 1))
    /\ [][ /\ (data # Null => data' = data)
           /\ (viewState' # viewState =>
                 (data' = data /\ fetchCount' = fetchCount /\ pc' = pc))
           /\ (data' # data => (viewState' = viewState /\ pc = "parsed")) ]_vars

\* C8 witness: a loaded dataset, view changes applied, several renders done.
C8_Witness ==
    /\ data # Null /\ data # Undefined
    /\ lastEvent # Null
    /\ renders >= 3
    /\ fetchCount = 1

\* C10: the stored state does not depend on which render's minimap the
\* callback captured: after any event, also one delivered through a callback
\* whose captured minimap is stale, the state is main = the event's state and
\* minimap = the event's latitude and longitude with zoom 4.
C10_StaleClosureHarmless ==
    lastEvent # Null =>
        viewState = [ main    |-> lastEvent,
                      minimap |-> [latitude  |-> lastEvent.latitude,
                                   longitude |-> lastEvent.longitude,
                                   zoom      |-> 4] ]

\* C10 witness: the last event went through a callback whose captured minimap
\* centre was stale and differs from the event's centre.
C10_Witness ==
    /\ lastWasStale
    /\ cbMinimap # prevMinimap
    /\ cbMinimap.latitude # lastEvent.latitude
    /\ cbMinimap.longitude # lastEvent.longitude

----------------------------------------------------------------------------
(* Properties of the tooltip builder, checked under SpecTooltip *)

\* The grouped rendering of the prices of Prices, written out per locale.
ExpectedPriceText(p, loc) ==
    CASE p = 0 -> "0"
      [] p = 999 -> "999"
      [] p = 1000 ->
            (CASE loc = "en-US" -> "1,000"
               [] loc = "de-DE" -> "1.000"
               [] loc = "fr-FR" -> "1 000")
      [] p = 500000 ->
            (CASE loc = "en-US" -> "500,000"
               [] loc = "de-DE" -> "500.000"
               [] loc = "fr-FR" -> "500 000")
      [] p = 1234567 ->
            (CASE loc = "en-US" -> "1,234,567"
               [] loc = "de-DE" -> "1.234.567"
               [] loc = "fr-FR" -> "1 234 567")

PriceLine(text) == "<div style=\"color: lightgray;\">$" \o text \o " USD</div>"

\* the picked object is a feature whose properties member is null
HasNullProperties(o) ==
    o # Null /\ "properties" \in DOMAIN o /\ o["properties"] = Null

\* the price the tooltip reads: from the properties member, or from the
\* object itself when it has no properties member
PickedPrice(o) == Get(PropsOf(o), "price_median")

\* C9 as stated: picking null, or an object whose properties are absent,
\* yields no tooltip; an absent price renders N/A; price_median = 500000
\* renders "$500,000 USD".
C9_AsStated ==
    tooltip # NotComputed =>
        /\ (object = Null \/ HasNullProperties(object)) => tooltip = Null
        /\ (object # Null /\ ~HasNullProperties(object)) =>
              /\ tooltip # Null
              /\ IsNullish(PickedPrice(object)) =>
                    tooltip.html[4] = PriceLine("N/A")
              /\ PickedPrice(object) = Num(500000) =>
                    tooltip.html[4] = PriceLine("500,000")

\* C9 (amended): getTooltip is a function of the picked object and of the
\* runtime's default locale. Picking null, or a feature whose properties
\* member is null, yields no tooltip. Otherwise the tooltip has the four
\* template lines: the county label, the name (each empty when missing), the
\* fixed caption, and the price line, which is "$N/A USD" when price_median
\* is missing or null and otherwise the price grouped in threes with the
\* locale's separator: 500000 renders "$500,000 USD" under en-US,
\* "$500.000 USD" under de-DE.
C9_TooltipByLocale ==
    tooltip # NotComputed =>
        /\ (object = Null \/ HasNullProperties(object)) => tooltip = Null
        /\ (object # Null /\ ~HasNullProperties(object)) =>
              LET props == PropsOf(object)
                  price == PickedPrice(object)
              IN  /\ tooltip # Null
                  /\ DOMAIN tooltip = {"html"}
                  /\ Len(tooltip.html) = 4
                  /\ tooltip.html[1] =
                        "<div style=\"color: white; font-weight: bold; font-size: 18px\">"
                        \o (IF "County_min" \in DOMAIN props THEN "Kings" ELSE "")
                        \o "</div>"
                  /\ tooltip.html[2] =
                        "<div style=\"color: white; font-weight: normal;\">"
                        \o (IF "Name_min" \in DOMAIN props THEN "Brooklyn" ELSE "")
                        \o "</div>"
                  /\ tooltip.html[3] =
                        "<div style=\"color: lightgray;\"><b>Median sales values:</b></div>"
                  /\ IsNullish(price) => tooltip.html[4] = PriceLine("N/A")
                  /\ ~IsNullish(price) =>
                        tooltip.html[4] = PriceLine(ExpectedPriceText(price.value, locale))
                  /\ (price = Num(500000) /\ locale = "en-US") =>
                        tooltip.html[4] = "<div style=\"color: lightgray;\">$500,000 USD</div>"

\* C9 witness: a feature with county, name and price 500000 was picked under
\* en-US and the tooltip shows "$500,000 USD".
C9_Witness ==
    /\ tooltip # NotComputed
    /\ tooltip # Null
    /\ locale = "en-US"
    /\ "properties" \in DOMAIN object
    /\ PickedPrice(object) = Num(500000)
    /\ tooltip.html[4] = "<div style=\"color: lightgray;\">$500,000 USD</div>"

====
